---------------------------- MODULE Spec2Model ----------------------------
(***************************************************************************)
(* Tournament Tree (KapselVM25): the placement engine, the grouping        *)
(* policy, the round builder and the tournament state of src/app.js.       *)
(*                                                                         *)
(* Strings that the code only compares are modelled by integers that keep  *)
(* their order under localeCompare:                                        *)
(*   - a participant name is a positive integer, "BYE" is ByeName and the  *)
(*     empty string (no participant) is EmptyName;                         *)
(*   - a roster id "p_<i>_<random>" is the row index i, a BYE id           *)
(*     "bye_<j>_<random>" is ByeBase + 10*g + j where g stands for the     *)
(*     random suffix, and the id of no participant is NoId.                *)
(* Match ids and round ids are random strings that no code reads; they     *)
(* are left out of the records.  Round names are the strings of the code.  *)
(***************************************************************************)
EXTENDS Integers, Sequences, FiniteSets, TLC

VARIABLES participants, rounds, call

vars == <<participants, rounds, call>>

-----------------------------------------------------------------------------
(* Bounds of the model *)

\* largest roster that is loaded and largest list given to the grouping policy
MaxN == 12
\* rounds a tournament may hold before build-next-round is no longer explored
MaxRounds == 4
\* slots of a match handed to computePlacements on its own
MaxSlots == 3
\* matches of a round handed to buildNextRound on its own
MaxMatches == 6
\* largest roundIndex handed to buildNextRound on its own
MaxRoundIndex == 1
\* matches of such a round whose score sheets are chosen freely (the sheets
\* of the later matches repeat them in turn)
MaxFreeSheets == 2
\* largest roster of a tournament that is played on to its end
MaxPlayN == 6

-----------------------------------------------------------------------------
(* Values *)

\* `undefined` points of a slot (the value of a slot that has no points)
NoPoints == -1
\* the name "BYE" (names 1..5 sort before it, names from 7 on after it)
ByeName == 6
\* the name "" that `participant?.name || ""` gives for an empty slot
EmptyName == 0
\* the id "" that `participant?.id || ""` gives for an empty slot
NoId == -1
\* ids from ByeBase on are the ids "bye_<j>_<random>" of makeByes
ByeBase == 1000

\* a slot's participant when the slot is empty (null)
NoParticipant == [id |-> NoId, name |-> EmptyName]

IsBye(p) == p.name = ByeName
HasParticipant(s) == s.participant # NoParticipant
IsNumber(pts) == pts # NoPoints

RoundName(n) == "Round " \o ToString(n)
Semifinal == "Semifinal"
FinalTable == "Final Table"

-----------------------------------------------------------------------------
(* Helpers *)

Min(a, b) == IF a < b THEN a ELSE b
Max(a, b) == IF a > b THEN a ELSE b
CeilDiv(a, b) == (a + b - 1) \div b

RECURSIVE SumSeq(_)
SumSeq(s) == IF s = <<>> THEN 0 ELSE Head(s) + SumSeq(Tail(s))

RECURSIVE Flatten(_)
Flatten(ss) == IF ss = <<>> THEN <<>> ELSE Head(ss) \o Flatten(Tail(ss))

Range(s) == {s[i] : i \in 1..Len(s)}

\* Array.prototype.sort: a stable sort by a comparator; Less(a, b) is
\* "compare(a, b) < 0".  Elements the comparator holds equal keep their order.
StableSort(s, Less(_, _)) ==
  LET rank(i) == Cardinality({j \in 1..Len(s) :
                     Less(s[j], s[i]) \/ (~Less(s[i], s[j]) /\ j < i)}) + 1
  IN  [k \in 1..Len(s) |-> s[CHOOSE i \in 1..Len(s) : rank(i) = k]]

\* Array.prototype.slice(from, to) with 0-based from and exclusive to
Slice(s, from, to) == SubSeq(s, from + 1, Min(to, Len(s)))

\* the collation key of an id: "" < "bye_<j>_<g>" < "p_<i>_..."; the decimal
\* digits of i are compared as characters ("p_10_" sorts before "p_2_", and
\* "p_1_" before "p_10_" because "_" sorts before every digit)
IdKey(id) ==
  IF id = NoId THEN <<>>
  ELSE IF id >= ByeBase THEN <<1, (id - ByeBase) % 10, (id - ByeBase) \div 10>>
  ELSE IF id < 10 THEN <<2, id + 1, 0>>
  ELSE <<2, (id \div 10) + 1, (id % 10) + 1>>

\* a.localeCompare(b) < 0 on ids
IdLess(a, b) ==
  LET ka == IdKey(a)
      kb == IdKey(b)
  IN  IF ka = <<>> \/ kb = <<>> THEN ka = <<>> /\ kb # <<>>
      ELSE \/ ka[1] < kb[1]
           \/ ka[1] = kb[1] /\ ka[2] < kb[2]
           \/ ka[1] = kb[1] /\ ka[2] = kb[2] /\ ka[3] < kb[3]

\* a.localeCompare(b) < 0 on names
NameLess(a, b) == a < b

-----------------------------------------------------------------------------
(* Grouping policy *)

\* (a slip: chunks of 3)
chunk3(arr) ==
  [i \in 1..CeilDiv(Len(arr), 3) |-> Slice(arr, 3 * (i - 1), 3 * (i - 1) + 3)]

\* arr cut into consecutive chunks of 4
chunk4(arr) ==
  [i \in 1..CeilDiv(Len(arr), 4) |-> Slice(arr, 4 * (i - 1), 4 * (i - 1) + 4)]

\* (a slip: the fallback rounds down)
GroupCountFloor(N) ==
  LET minMatches == CeilDiv(N, 5)
      maxMatches == N \div 4
  IN  IF minMatches <= maxMatches THEN maxMatches ELSE Max(1, N \div 4)

\* the number m of groups that distributeIntoGroups makes of N > 0 players
GroupCount(N) ==
  LET minMatches == CeilDiv(N, 5)
      maxMatches == N \div 4
  IN  IF minMatches <= maxMatches THEN maxMatches ELSE CeilDiv(N, 4)

\* (a slip: the last N % m groups get the extra member)
GroupSizeExtraLast(N, m, i) == (N \div m) + (IF i >= m - (N % m) THEN 1 ELSE 0)

\* size of group i (0-based) of m groups of N players
GroupSize(N, m, i) == (N \div m) + (IF i < N % m THEN 1 ELSE 0)

distributeIntoGroups(players) ==
  LET N == Len(players)
  IN  IF N = 0 THEN <<>>
      ELSE LET m == GroupCount(N)
               idx(i) == SumSeq([k \in 1..i |-> GroupSize(N, m, k - 1)])
           IN  [i \in 1..m |-> Slice(players, idx(i - 1), idx(i - 1) + GroupSize(N, m, i - 1))]

\* (a slip: matches are padded to 3 slots)
DesiredSize3(len) == Max(3, len)

\* desiredSize = Math.max(4, g.length)
DesiredSize(len) == Max(4, len)

\* makeByes(count) called for the g-th group (g stands for the random suffix)
makeByes(count, g) ==
  [i \in 1..count |-> [id |-> ByeBase + 10 * g + (i - 1), name |-> ByeName]]

seedInitialRound(players) ==
  LET groups == distributeIntoGroups(players)
      matchOf(g) ==
        LET grp == groups[g]
            desiredSize == DesiredSize(Len(grp))
            filled == IF Len(grp) < desiredSize
                      THEN grp \o makeByes(desiredSize - Len(grp), g)
                      ELSE grp
        IN  [slots |-> [k \in 1..Len(filled) |->
                          [participant |-> filled[k],
                           points |-> IF IsBye(filled[k]) THEN 0 ELSE NoPoints]],
             isComplete |-> FALSE]
  IN  [name |-> RoundName(1),
       matches |-> [g \in 1..Len(groups) |-> matchOf(g)],
       computed |-> FALSE]

-----------------------------------------------------------------------------
(* Placement engine *)

\* (a slip: a BYE without points makes the match incomplete too)
NeedsPointsByeToo(match) ==
  \E i \in 1..Len(match.slots) :
     LET s == match.slots[i]
     IN  HasParticipant(s) /\ ~IsNumber(s.points)

\* `needs`: some slot holds a real participant whose points are not a number
NeedsPoints(match) ==
  \E i \in 1..Len(match.slots) :
     LET s == match.slots[i]
     IN  HasParticipant(s) /\ ~IsBye(s.participant) /\ ~IsNumber(s.points)

\* pb - pa < 0 with `points ?? -Infinity`: a is ahead of b on points
PointsAhead(pa, pb) == IsNumber(pa) /\ (~IsNumber(pb) \/ pa > pb)

\* (a slip: no tie-break by id)
SlotBeforeNoId(a, b) ==
  IF a.points # b.points
  THEN PointsAhead(a.points, b.points)
  ELSE NameLess(a.participant.name, b.participant.name)

\* the comparator of computePlacements: compare(a, b) < 0
SlotBefore(a, b) ==
  IF a.points # b.points
  THEN PointsAhead(a.points, b.points)
  ELSE IF a.participant.name # b.participant.name
       THEN NameLess(a.participant.name, b.participant.name)
       ELSE IdLess(a.participant.id, b.participant.id)

IsParticipant(p) == p # NoParticipant

\* sorted.map((x) => x.slot.participant)
ParticipantsOf(slots) == [i \in 1..Len(slots) |-> slots[i].participant]

\* the result {...match, placements, isComplete}; when the match is
\* incomplete the result has no placements (hasPlacements = FALSE)
computePlacements(match) ==
  IF NeedsPoints(match)
  THEN [slots |-> match.slots, isComplete |-> FALSE,
        hasPlacements |-> FALSE, placements |-> <<>>]
  ELSE [slots |-> match.slots, isComplete |-> TRUE,
        hasPlacements |-> TRUE,
        placements |-> SelectSeq(ParticipantsOf(StableSort(match.slots, SlotBefore)),
                                 IsParticipant)]

\* (a slip: match.slots itself is sorted)
MatchSortedInPlace(match) ==
  IF NeedsPoints(match) THEN match
  ELSE [match EXCEPT !.slots = StableSort(match.slots, SlotBefore)]

\* the match after computePlacements(match): withIdx, which is sorted, is a
\* new array and the result is a new object, so match is as it was
MatchAfterPlacements(match) == match

\* arr[i] with a 0-based i; NoParticipant stands for `undefined`
At(arr, i) == IF i + 1 <= Len(arr) THEN arr[i + 1] ELSE NoParticipant

\* m.slots.find((s) => s.participant?.id === id)?.points ?? 0
PointsIn(m, id) ==
  LET hits == {i \in 1..Len(m.slots) :
                 HasParticipant(m.slots[i]) /\ m.slots[i].participant.id = id}
  IN  IF hits = {} THEN 0
      ELSE LET i == CHOOSE k \in hits : \A j \in hits : k <= j
           IN  IF IsNumber(m.slots[i].points) THEN m.slots[i].points ELSE 0

\* (a slip: only the winner of a match advances)
MatchAdvancersWinnerOnly(cm) ==
  IF ~cm.isComplete \/ ~cm.hasPlacements THEN <<>>
  ELSE SelectSeq(Slice(cm.placements, 0, 1), LAMBDA p : ~IsBye(p))

\* (a slip: the first three placements advance)
MatchAdvancersTopThree(cm) ==
  IF ~cm.isComplete \/ ~cm.hasPlacements THEN <<>>
  ELSE SelectSeq(Slice(cm.placements, 0, 3), LAMBDA p : ~IsBye(p))

\* what one match adds to the advancers: its first and second placement
\* when they are not BYE (cm is computePlacements(m))
MatchAdvancers(cm) ==
  IF ~cm.isComplete \/ ~cm.hasPlacements THEN <<>>
  ELSE SelectSeq(Slice(cm.placements, 0, 2), LAMBDA p : ~IsBye(p))

\* (a slip: the placement at index 1 is taken as the third)
MatchThirdsSecondPlace(m, cm) ==
  IF ~cm.isComplete \/ ~cm.hasPlacements THEN <<>>
  ELSE [k \in 1..Len(SelectSeq(Slice(cm.placements, 1, 2), LAMBDA p : ~IsBye(p))) |->
          [p |-> cm.placements[2], points |-> PointsIn(m, cm.placements[2].id)]]

\* (a slip: the third placement is taken also when it is BYE)
MatchThirdsByeToo(m, cm) ==
  IF ~cm.isComplete \/ ~cm.hasPlacements THEN <<>>
  ELSE [k \in 1..Len(Slice(cm.placements, 2, 3)) |->
          [p |-> cm.placements[3], points |-> PointsIn(m, cm.placements[3].id)]]

\* what one match adds to the thirds: its third placement when it is not
\* BYE, with the points the match records for it
MatchThirds(m, cm) ==
  IF ~cm.isComplete \/ ~cm.hasPlacements THEN <<>>
  ELSE [k \in 1..Len(SelectSeq(Slice(cm.placements, 2, 3), LAMBDA p : ~IsBye(p))) |->
          [p |-> cm.placements[3], points |-> PointsIn(m, cm.placements[3].id)]]

nextRoundFrom(current) ==
  [advancers |-> Flatten([i \in 1..Len(current.matches) |->
                    MatchAdvancers(computePlacements(current.matches[i]))]),
   thirds |-> Flatten([i \in 1..Len(current.matches) |->
                    MatchThirds(current.matches[i],
                                computePlacements(current.matches[i]))])]

-----------------------------------------------------------------------------
(* Round builder *)

\* the `null` that buildNextRound returns when it builds no round
NoRound == [name |-> "", matches |-> <<>>, computed |-> FALSE]

\* the round { name, matches: groups.map(g => slots of g without points),
\* computed: false }
MakeRound(name, groups) ==
  [name |-> name,
   matches |-> [g \in 1..Len(groups) |->
                  [slots |-> [k \in 1..Len(groups[g]) |->
                                [participant |-> groups[g][k], points |-> NoPoints]],
                   isComplete |-> FALSE]],
   computed |-> FALSE]

\* (a, b) => b.points - a.points || a.p.name.localeCompare(b.p.name), < 0
ByPointsThenName(a, b) ==
  \/ a.points > b.points
  \/ a.points = b.points /\ NameLess(a.p.name, b.p.name)

\* the participants of a list of { p, points }
Players(xs) == [i \in 1..Len(xs) |-> xs[i].p]

\* Array.from(new Map(arr.map((p) => [p.id, p])).values()): one entry per
\* id, at the position of the id's first occurrence, holding its last value
UniqueById(arr) ==
  [k \in 1..Cardinality({arr[i].id : i \in 1..Len(arr)}) |->
     arr[CHOOSE last \in 1..Len(arr) :
           /\ \A j \in (last + 1)..Len(arr) : arr[j].id # arr[last].id
           /\ Cardinality({arr[j].id : j \in 1..(CHOOSE f \in 1..last :
                               /\ arr[f].id = arr[last].id
                               /\ \A j \in 1..(f - 1) : arr[j].id # arr[f].id)}) = k]]

\* the pool loop `if (!seen.has(x.id)) { seen.add(x.id); pool.push(x) }`:
\* one entry per id, the first occurrence
FirstById(arr) ==
  [k \in 1..Cardinality({arr[i].id : i \in 1..Len(arr)}) |->
     arr[CHOOSE f \in 1..Len(arr) :
           /\ \A j \in 1..(f - 1) : arr[j].id # arr[f].id
           /\ Cardinality({arr[j].id : j \in 1..f}) = k]]

Cms(prev) == [i \in 1..Len(prev.matches) |-> computePlacements(prev.matches[i])]

\* cms.every((cm) => cm.isComplete && cm.placements)
AllPlaced(cms) == \A i \in 1..Len(cms) : cms[i].isComplete /\ cms[i].hasPlacements

\* cms.every((cm) => cm.isComplete && cm.placements && cm.placements.length >= 2)
AllRanked(cms) ==
  \A i \in 1..Len(cms) :
     cms[i].isComplete /\ cms[i].hasPlacements /\ Len(cms[i].placements) >= 2

\* cms.map((cm) => cm.placements[0]).filter(Boolean)
Winners(cms) ==
  SelectSeq([i \in 1..Len(cms) |-> At(cms[i].placements, 0)], IsParticipant)

\* the second of every match with the points its match records for it,
\* without the matches that have no second
Seconds(prev, cms) ==
  SelectSeq([i \in 1..Len(cms) |->
               [p |-> At(cms[i].placements, 1),
                points |-> PointsIn(prev.matches[i], At(cms[i].placements, 1).id)]],
            LAMBDA x : IsParticipant(x.p))

\* (a slip: the last of the sorted seconds is taken)
WithLastSecond(winners, sortedSeconds) ==
  IF sortedSeconds # <<>>
  THEN Append(winners, sortedSeconds[Len(sortedSeconds)].p) ELSE winners

\* adv = [...winners]; if (bestSecond) adv.push(bestSecond)
WithBestSecond(winners, sortedSeconds) ==
  IF sortedSeconds # <<>> THEN Append(winners, sortedSeconds[1].p) ELSE winners

\* the winners plus the best second of a round, de-duplicated by id (the
\* Semifinal branch and the semifinal-format branch)
WinnersPlusBestSecond(prev, cms) ==
  UniqueById(WithBestSecond(Winners(cms),
                            StableSort(Seconds(prev, cms), ByPointsThenName)))

\* the candidate pool of the Semifinal formation: winners, then seconds,
\* then thirds, without BYEs, each id once
CandidatePool(prev, cms, thirds) ==
  FirstById(SelectSeq(Winners(cms), LAMBDA p : ~IsBye(p))
            \o Players(StableSort(SelectSeq(Seconds(prev, cms), LAMBDA x : ~IsBye(x.p)),
                                  ByPointsThenName))
            \o Players(StableSort(thirds, ByPointsThenName)))

\* (a slip: three real players are asked of every match)
IsSemifinalFormatOfThree(prev) ==
  /\ Len(prev.matches) = 3
  /\ \A i \in 1..3 :
        Cardinality({k \in 1..Len(prev.matches[i].slots) :
                       /\ HasParticipant(prev.matches[i].slots[k])
                       /\ ~IsBye(prev.matches[i].slots[k].participant)}) >= 3

\* prev.matches.length === 3 and every match has at least two real players
IsSemifinalFormat(prev) ==
  /\ Len(prev.matches) = 3
  /\ \A i \in 1..3 :
        Cardinality({k \in 1..Len(prev.matches[i].slots) :
                       /\ HasParticipant(prev.matches[i].slots[k])
                       /\ ~IsBye(prev.matches[i].slots[k].participant)}) >= 2

\* (a slip: every group takes from the front of all the sorted thirds,
\* slice(0, need) instead of splice(0, need))
TopUpFromFront(groups, sortedThirds) ==
  [g \in 1..Len(groups) |->
     groups[g] \o
     Players(SubSeq(sortedThirds, 1,
                    Min(Max(0, 4 - Len(groups[g])), Len(sortedThirds))))]

\* groups.map: a group of fewer than 4 takes what it needs from the front
\* of the thirds that remain (remainingThirds.splice(0, need))
TopUp(groups, sortedThirds) ==
  [g \in 1..Len(groups) |->
     groups[g] \o
     Players(SubSeq(sortedThirds,
        SumSeq([k \in 1..(g - 1) |-> Max(0, 4 - Len(groups[k]))]) + 1,
        Min(SumSeq([k \in 1..g |-> Max(0, 4 - Len(groups[k]))]), Len(sortedThirds))))]

\* (a slip: the thirds are taken in match order, not sorted by points)
DefaultGroupsUnsorted(advancers, thirds) ==
  TopUp(distributeIntoGroups(advancers), thirds)

\* the groups of the default path
DefaultGroups(advancers, thirds) ==
  TopUp(distributeIntoGroups(advancers), StableSort(thirds, ByPointsThenName))

\* the total number of players of the groups
TotalOf(groups) == SumSeq([g \in 1..Len(groups) |-> Len(groups[g])])

\* (a slip: the round is numbered roundIndex + 1)
DefaultRoundOffByOne(groups, roundIndex) ==
  MakeRound(IF TotalOf(groups) = 4 THEN FinalTable ELSE RoundName(roundIndex + 1),
            groups)

\* the default path: name and matches from the topped-up groups
DefaultRound(groups, roundIndex) ==
  MakeRound(IF TotalOf(groups) = 4 THEN FinalTable ELSE RoundName(roundIndex + 2),
            groups)

\* (a slip: the round after the Semifinal is named "Semifinal" again)
FinalOfNamedSemifinal(uniqueAdv) ==
  IF Len(uniqueAdv) # 4 THEN NoRound ELSE MakeRound(Semifinal, chunk4(uniqueAdv))

\* if (uniqueAdv.length !== 4) return null; else the Final Table of them
FinalOf(uniqueAdv) ==
  IF Len(uniqueAdv) # 4 THEN NoRound ELSE MakeRound(FinalTable, chunk4(uniqueAdv))

\* (a slip: a pool of more than 9 makes a Semifinal too)
PoolAtLeastNine(pool) == Len(pool) >= 9

\* if (pool.length === 9)
PoolIsNine(pool) == Len(pool) = 9

\* the three groups of three of the Semifinal
SemifinalOf(pool) ==
  MakeRound(Semifinal, [i \in 1..3 |-> Slice(Slice(pool, 0, 9), (i - 1) * 3, (i - 1) * 3 + 3)])

\* the branches of buildNextRound after the advancers were found non-empty;
\* uniqueAdv and pool are the values the branches compute from cms
Branches(prev, roundIndex, nr, cms, uniqueAdv, pool) ==
  IF prev.name = Semifinal
  THEN [path |-> "semifinalToFinal",
        round |-> IF ~AllRanked(cms) THEN NoRound ELSE FinalOf(uniqueAdv)]
  ELSE IF AllPlaced(cms) /\ PoolIsNine(pool)
  THEN [path |-> "semifinalFormation", round |-> SemifinalOf(pool)]
  ELSE IF IsSemifinalFormat(prev) /\ ~AllRanked(cms)
  THEN [path |-> "semifinalFormat", round |-> NoRound]
  ELSE IF IsSemifinalFormat(prev) /\ Len(uniqueAdv) = 4
  THEN [path |-> "semifinalFormat", round |-> FinalOf(uniqueAdv)]
  ELSE [path |-> "default",
        round |-> DefaultRound(DefaultGroups(nr.advancers, nr.thirds), roundIndex)]

\* buildNextRound(prev, roundIndex), with the branch that produced the result
BuildFrom(prev, roundIndex, nr, cms) ==
  IF nr.advancers = <<>>
  THEN [path |-> "noAdvancers", round |-> NoRound]
  ELSE Branches(prev, roundIndex, nr, cms,
                WinnersPlusBestSecond(prev, cms),
                CandidatePool(prev, cms, nr.thirds))

\* (a slip: the computed placements are stored in the matches of prev)
RoundWithStoredPlacements(prev) ==
  [prev EXCEPT !.matches = [i \in 1..Len(prev.matches) |->
     [prev.matches[i] EXCEPT !.isComplete = computePlacements(prev.matches[i]).isComplete]]]

\* the round prev after buildNextRound(prev, roundIndex): every array that
\* is sorted or pushed to is local, the results of computePlacements are
\* not stored, so prev is as it was
RoundAfterBuild(prev) == prev

BuildResult(prev, roundIndex) ==
  BuildFrom(prev, roundIndex, nextRoundFrom(prev), Cms(prev))

buildNextRound(prev, roundIndex) == BuildResult(prev, roundIndex).round

-----------------------------------------------------------------------------
(* Inputs: rosters and score sheets *)

\* two ways of naming the roster: every name once, or every name twice
NameSchemes == {"unique", "paired"}

\* the rosters a sheet may hold besides: every name sorts after "BYE"
LoadSchemes == NameSchemes \cup {"late"}

\* the name of roster row i; odd, so never "BYE"; rows 0..2 sort before "BYE"
\* unless the roster is a late one
NameOf(scheme, i) ==
  IF scheme = "unique" THEN 2 * i + 1
  ELSE IF scheme = "paired" THEN 2 * (i \div 2) + 1
  ELSE ByeName + 2 * i + 1

\* participantsFromCsvRows: one participant per row, id "p_<i>_<random>"
Roster(N, scheme) == [i \in 1..N |-> [id |-> i - 1, name |-> NameOf(scheme, i - 1)]]

\* the score sheets a match is filled from: points falling or rising with
\* the slot, or 0 for everybody
Sheets == {"desc", "asc", "zero"}

\* the points sheet sh gives the q-th of the n real players of a match
SheetValue(sh, n, q) ==
  IF sh = "desc" THEN n - q + 1 ELSE IF sh = "asc" THEN q ELSE 0

IsReal(p) == IsParticipant(p) /\ ~IsBye(p)

RealSlots(match) == {k \in 1..Len(match.slots) : IsReal(match.slots[k].participant)}

\* slot k is the q-th real slot of the match
RealPos(match, k) == Cardinality({j \in RealSlots(match) : j <= k})

\* the values a sheet allows in slot k, given what the match already holds
SheetValues(match, k) ==
  LET n == Cardinality(RealSlots(match))
      fits(sh) == \A j \in RealSlots(match) :
                     (j # k /\ IsNumber(match.slots[j].points)) =>
                        match.slots[j].points = SheetValue(sh, n, RealPos(match, j))
  IN  {SheetValue(sh, n, RealPos(match, k)) : sh \in {x \in Sheets : fits(x)}}

-----------------------------------------------------------------------------
(* Tournament state: the handlers of the page *)

NoCall == [fn |-> "none"]

Init ==
  /\ participants = <<>>
  /\ rounds = <<>>
  /\ call = NoCall

\* btnLoad / btnUseSample: a fetched roster replaces the state; a failed
\* fetch leaves it alone
Load ==
  /\ \/ \E N \in 0..MaxN, scheme \in LoadSchemes :
           /\ participants' = Roster(N, scheme)
           /\ rounds' = <<>>
     \/ UNCHANGED <<participants, rounds>>
  /\ UNCHANGED call

\* btnReset, when the confirm dialog is accepted
Reset ==
  /\ participants' = <<>>
  /\ rounds' = <<>>
  /\ UNCHANGED call

\* btnSeed (disabled by renderRounds once a round exists)
Seed ==
  /\ rounds = <<>>
  /\ participants # <<>>
  /\ rounds' = <<seedInitialRound(participants)>>
  /\ UNCHANGED <<participants, call>>

\* slots of round r in reading order, as <<match, slot>> pairs
SlotsOf(round) ==
  {<<m, k>> : m \in 1..Len(round.matches), k \in 1..MaxN} \cap
  {x \in (1..Len(round.matches)) \X (1..MaxN) :
     x[2] <= Len(round.matches[x[1]].slots)}

\* the input handler of slot k of match m of round r: the typed number
\* becomes the slot's points (the input of a BYE slot is disabled)
SetPoints(r, m, k, val) ==
  /\ ~IsBye(rounds[r].matches[m].slots[k].participant)
  /\ rounds' = [rounds EXCEPT ![r].matches[m].slots[k].points = val]
  /\ UNCHANGED <<participants, call>>

\* the points the user records: the last round is filled in reading order
\* from the score sheets
RecordPoint ==
  /\ rounds # <<>>
  /\ LET r == Len(rounds)
         round == rounds[r]
         open == {x \in SlotsOf(round) :
                    LET s == round.matches[x[1]].slots[x[2]]
                    IN  IsReal(s.participant) /\ ~IsNumber(s.points)}
     IN  /\ ~round.computed
         /\ \E x \in open :
              /\ \A y \in open : y[1] > x[1] \/ (y[1] = x[1] /\ y[2] >= x[2])
              /\ \E val \in SheetValues(round.matches[x[1]], x[2]) :
                    SetPoints(r, x[1], x[2], val)

\* (a slip: only the first match is looked at)
AllCompleteFirstMatch(round) == computePlacements(round.matches[1]).isComplete

AllComplete(round) ==
  \A m \in 1..Len(round.matches) : computePlacements(round.matches[m]).isComplete

\* btnCompute (disabled while there is no round)
computeCurrentRound ==
  /\ rounds # <<>>
  /\ \/ /\ AllComplete(rounds[Len(rounds)])
        /\ rounds' = [rounds EXCEPT ![Len(rounds)].computed = TRUE]
     \/ /\ ~AllComplete(rounds[Len(rounds)])
        /\ UNCHANGED rounds
  /\ UNCHANGED <<participants, call>>

\* (a slip: the check for the Final Table is missing)
AppendNextPastFinal(prev, next) ==
  \/ /\ ~prev.computed \/ next = NoRound
     /\ UNCHANGED rounds
  \/ /\ prev.computed
     /\ next # NoRound
     /\ Len(rounds) < MaxRounds
     /\ rounds' = Append(rounds, next)

\* (a slip: the check for a computed round is missing)
AppendNextUncomputed(prev, next) ==
  \/ /\ prev.name = FinalTable \/ next = NoRound
     /\ UNCHANGED rounds
  \/ /\ prev.name # FinalTable
     /\ next # NoRound
     /\ Len(rounds) < MaxRounds
     /\ rounds' = Append(rounds, next)

\* buildNext once prev and buildNextRound's result are known
AppendNext(prev, next) ==
  \/ /\ prev.name = FinalTable
     /\ UNCHANGED rounds
  \/ /\ prev.name # FinalTable
     /\ ~prev.computed
     /\ UNCHANGED rounds
  \/ /\ prev.name # FinalTable
     /\ prev.computed
     /\ next = NoRound
     /\ UNCHANGED rounds
  \/ /\ prev.name # FinalTable
     /\ prev.computed
     /\ next # NoRound
     /\ Len(rounds) < MaxRounds
     /\ rounds' = Append(rounds, next)

\* btnNext (disabled while there is no round)
buildNext ==
  /\ rounds # <<>>
  /\ AppendNext(rounds[Len(rounds)],
                buildNextRound(rounds[Len(rounds)], Len(rounds) - 1))
  /\ UNCHANGED <<participants, call>>

Next == Load \/ Reset \/ Seed \/ RecordPoint \/ computeCurrentRound \/ buildNext

Spec == Init /\ [][Next]_vars

-----------------------------------------------------------------------------
(* The functions on their own: inputs drawn from bounded sets *)

\* what a slot of an input match may hold: nobody, a BYE (without points as
\* buildNextRound leaves it, or with the 0 of seedInitialRound), or a real
\* player named just before or just after "BYE"
SlotKinds ==
  {<<EmptyName, NoPoints>>, <<EmptyName, 1>>, <<ByeName, NoPoints>>, <<ByeName, 0>>}
  \cup ({ByeName - 1, ByeName + 1} \X {NoPoints, 0, 1})

\* slot k of n of an input match; ids rise or fall with the slot
InputSlot(kind, k, n, rising) ==
  [participant |->
     IF kind[1] = EmptyName THEN NoParticipant
     ELSE IF kind[1] = ByeName THEN [id |-> ByeBase + (k - 1), name |-> ByeName]
     ELSE [id |-> IF rising THEN k - 1 ELSE n - k, name |-> kind[1]],
   points |-> kind[2]]

\* the sheets of an input round: those of a tournament, and one that
\* leaves the first player of the match without points
InputSheets == Sheets \cup {"blank"}

InputSheetValue(sh, n, q) ==
  IF sh = "blank" THEN (IF q = 1 THEN NoPoints ELSE n - q + 1)
  ELSE SheetValue(sh, n, q)

\* match i of an input round: reals real players whose ids start at first,
\* filled from sheet sh, and padded to 4 slots with BYEs when pad holds
InputRoundMatch(i, first, reals, sh, pad, scheme) ==
  [slots |->
     [q \in 1..reals |->
        [participant |-> [id |-> first + q - 1, name |-> NameOf(scheme, first + q - 1)],
         points |-> InputSheetValue(sh, reals, q)]]
     \o (IF pad /\ reals < 4
         THEN [j \in 1..(4 - reals) |->
                 [participant |-> makeByes(4 - reals, i)[j], points |-> 0]]
         ELSE <<>>),
   isComplete |-> FALSE]

\* an input round of k matches of r real players, the last match with
\* r - short of them
InputRound(name, k, r, short, pad, sheets, scheme) ==
  [name |-> name,
   matches |-> [i \in 1..k |->
      InputRoundMatch(i, (i - 1) * r, IF i = k THEN r - short ELSE r,
                      sheets[((i - 1) % Len(sheets)) + 1], pad, scheme)],
   computed |-> TRUE]

\* the names of an input round with the roundIndex it is built with
InputNames ==
  {<<RoundName(i + 1), i>> : i \in 0..MaxRoundIndex} \cup {<<Semifinal, MaxRoundIndex>>}

\* the input of a call: a roster, a match or a round with its index
FnInit ==
  /\ participants = <<>>
  /\ rounds = <<>>
  /\ \/ \E N \in 0..MaxN, scheme \in NameSchemes :
           call = [fn |-> "input", kind |-> "players", players |-> Roster(N, scheme)]
     \/ \E n \in 1..MaxSlots, rising \in BOOLEAN :
           \E kinds \in [1..n -> SlotKinds] :
              call = [fn |-> "input", kind |-> "match",
                      match |-> [slots |-> [k \in 1..n |->
                                              InputSlot(kinds[k], k, n, rising)],
                                 isComplete |-> FALSE]]
     \/ \E k \in 1..MaxMatches, r \in 2..5, short \in 0..1, pad \in BOOLEAN,
           scheme \in NameSchemes, named \in InputNames :
           \E sheets \in [1..Min(k, MaxFreeSheets) -> InputSheets] :
              call = [fn |-> "input", kind |-> "round",
                      prev |-> InputRound(named[1], k, r, short, pad, sheets, scheme),
                      roundIndex |-> named[2]]

CallDistribute ==
  /\ call.fn = "input" /\ call.kind = "players"
  /\ call' = [fn |-> "distributeIntoGroups", players |-> call.players,
              groups |-> distributeIntoGroups(call.players)]
  /\ UNCHANGED <<participants, rounds>>

\* seedInitialRound is only ever called with a roster that is not empty
CallSeed ==
  /\ call.fn = "input" /\ call.kind = "players"
  /\ call.players # <<>>
  /\ call' = [fn |-> "seedInitialRound", players |-> call.players,
              round |-> seedInitialRound(call.players)]
  /\ UNCHANGED <<participants, rounds>>

\* computePlacements(match), with what the call leaves in match and what a
\* second call on it returns
CallPlacements ==
  /\ call.fn = "input" /\ call.kind = "match"
  /\ call' = [fn |-> "computePlacements", match |-> call.match,
              cm |-> computePlacements(call.match),
              after |-> MatchAfterPlacements(call.match),
              again |-> computePlacements(MatchAfterPlacements(call.match))]
  /\ UNCHANGED <<participants, rounds>>

\* buildNextRound(prev, roundIndex), with the advancers and thirds it gets
\* from nextRoundFrom(prev), what the call leaves in prev and what a second
\* call on it returns
CallBuild ==
  /\ call.fn = "input" /\ call.kind = "round"
  /\ call' = [fn |-> "buildNextRound", prev |-> call.prev,
              roundIndex |-> call.roundIndex,
              nr |-> nextRoundFrom(call.prev),
              result |-> BuildResult(call.prev, call.roundIndex),
              after |-> RoundAfterBuild(call.prev),
              again |-> BuildResult(RoundAfterBuild(call.prev), call.roundIndex)]
  /\ UNCHANGED <<participants, rounds>>

FnNext == CallDistribute \/ CallSeed \/ CallPlacements \/ CallBuild

FnSpec == FnInit /\ [][FnNext]_vars

-----------------------------------------------------------------------------
(* Properties of the functions, checked under FnSpec *)

\* the participants of the slots of a round, in reading order
RoundPlayers(round) ==
  Flatten([m \in 1..Len(round.matches) |-> ParticipantsOf(round.matches[m].slots)])

\* every real player of the round has points
EveryMatchComplete(round) ==
  \A m \in 1..Len(round.matches) : \A k \in 1..Len(round.matches[m].slots) :
     IsReal(round.matches[m].slots[k].participant) =>
        IsNumber(round.matches[m].slots[k].points)

\* the non-BYE participants placed at 0-based rank j of some match of the round
PlacedAt(round, j) ==
  {p \in {At(computePlacements(round.matches[m]).placements, j) :
            m \in 1..Len(round.matches)} : IsReal(p)}

\* the match of the round that holds the participant
MatchOf(round, p) ==
  CHOOSE m \in 1..Len(round.matches) :
     \E k \in 1..Len(round.matches[m].slots) : round.matches[m].slots[k].participant = p

\* the points the round records for the participant (0 when it has none)
RecordedPoints(round, p) == PointsIn(round.matches[MatchOf(round, p)], p.id)

\* the 0-based rank of the participant in its match
RankOf(round, p) ==
  CHOOSE j \in 0..MaxN :
     At(computePlacements(round.matches[MatchOf(round, p)]).placements, j) = p

\* p comes before q in the candidate pool: winners in match order, then
\* seconds, then thirds, each by points descending, then by name
PoolOrdered(round, p, q) ==
  \/ RankOf(round, p) < RankOf(round, q)
  \/ /\ RankOf(round, p) = RankOf(round, q)
     /\ IF RankOf(round, p) = 0
        THEN MatchOf(round, p) < MatchOf(round, q)
        ELSE \/ RecordedPoints(round, p) > RecordedPoints(round, q)
             \/ /\ RecordedPoints(round, p) = RecordedPoints(round, q)
                /\ \/ p.name < q.name
                   \/ p.name = q.name /\ MatchOf(round, p) < MatchOf(round, q)

\* the round holds k matches of n slots, every slot a real player
IsFullShape(round, k, n) ==
  /\ Len(round.matches) = k
  /\ \A m \in 1..k :
        /\ Len(round.matches[m].slots) = n
        /\ \A j \in 1..n : IsReal(round.matches[m].slots[j].participant)

\* C1 for one call buildNextRound(prev, _) = next
SemifinalFormed(prev, next) ==
  LET pool == PlacedAt(prev, 0) \cup PlacedAt(prev, 1) \cup PlacedAt(prev, 2)
      seated == RoundPlayers(next)
  IN  /\ (next.name = Semifinal) <=> (Cardinality({p.id : p \in pool}) = 9)
      /\ next.name = Semifinal =>
            /\ Len(next.matches) = 3
            /\ \A m \in 1..3 : Len(next.matches[m].slots) = 3
            /\ Range(seated) = pool
            /\ \A a \in 1..9 : \A b \in (a + 1)..9 :
                  /\ seated[a].id # seated[b].id
                  /\ PoolOrdered(prev, seated[a], seated[b])
      /\ IsFullShape(prev, 3, 3) => next.name = Semifinal
      /\ IsFullShape(prev, 6, 4) => next.name # Semifinal

\* C1: from a complete round that is not the Semifinal, buildNextRound
\* returns a round named "Semifinal" exactly when the candidate pool (the
\* non-BYE first, second and third placements, each id once) has 9 players;
\* the round then has 3 matches of 3 slots that hold the pool in pool order
\* without repeating anybody; 3 matches of 3 real players give a Semifinal
\* and 6 matches of 4 real players do not.
C1_SemifinalIffPoolOfNine ==
  (/\ call.fn = "buildNextRound"
   /\ call.prev.name # Semifinal
   /\ EveryMatchComplete(call.prev))
     => SemifinalFormed(call.prev, call.result.round)

\* a Semifinal was formed from a round with a BYE-padded match whose thirds
\* were needed to reach 9
C1_Witness ==
  /\ call.fn = "buildNextRound"
  /\ call.prev.name # Semifinal
  /\ EveryMatchComplete(call.prev)
  /\ call.result.round.name = Semifinal
  /\ \E m \in 1..Len(call.prev.matches) :
        \E k \in 1..Len(call.prev.matches[m].slots) :
           IsBye(call.prev.matches[m].slots[k].participant)

\* the seconds of the round: the participants placed second in a match
SecondsOf(round) ==
  {At(computePlacements(round.matches[m]).placements, 1) :
     m \in 1..Len(round.matches)} \ {NoParticipant}

WinnersOf(round) ==
  {At(computePlacements(round.matches[m]).placements, 0) :
     m \in 1..Len(round.matches)} \ {NoParticipant}

\* b is a second that no other second beats on points, then on name
IsBestSecond(round, b) ==
  /\ b \in SecondsOf(round)
  /\ \A x \in SecondsOf(round) :
        \/ RecordedPoints(round, x) < RecordedPoints(round, b)
        \/ RecordedPoints(round, x) = RecordedPoints(round, b) /\ ~(x.name < b.name)

\* every match of the round is complete and has at least 2 placements
EveryMatchRanked(round) ==
  \A m \in 1..Len(round.matches) :
     /\ computePlacements(round.matches[m]).isComplete
     /\ Len(computePlacements(round.matches[m]).placements) >= 2

\* C2 for one call buildNextRound(prev, _) = next on a Semifinal
FinalFromSemifinal(prev, next) ==
  /\ \/ next = NoRound
     \/ /\ next.name = FinalTable
        /\ Len(next.matches) = 1
        /\ Len(next.matches[1].slots) = 4
        /\ Cardinality({p.id : p \in Range(RoundPlayers(next))}) = 4
        /\ \E b \in SecondsOf(prev) :
              /\ IsBestSecond(prev, b)
              /\ Range(RoundPlayers(next)) = WinnersOf(prev) \cup {b}
  /\ ~EveryMatchRanked(prev) => next = NoRound
  /\ (/\ EveryMatchRanked(prev)
      /\ \A b \in SecondsOf(prev) :
            IsBestSecond(prev, b) =>
               Cardinality({p.id : p \in WinnersOf(prev) \cup {b}}) # 4)
        => next = NoRound

\* C2: from a round named "Semifinal", buildNextRound returns null or a
\* "Final Table" of one match of 4 slots with 4 distinct participants, the
\* winner of every match plus the second with the most points (then the
\* first name); it returns null when a match is incomplete or has fewer than
\* 2 placements, or when winners plus best second are not 4 participants.
C2_FinalFromSemifinal ==
  (call.fn = "buildNextRound" /\ call.prev.name = Semifinal)
     => FinalFromSemifinal(call.prev, call.result.round)

\* a Final Table was built from a Semifinal whose seconds differ in points
C2_Witness ==
  /\ call.fn = "buildNextRound"
  /\ call.prev.name = Semifinal
  /\ call.result.round.name = FinalTable
  /\ \E x \in SecondsOf(call.prev) : ~IsBestSecond(call.prev, x)

\* the number of slots of a round
SlotCount(round) == Len(RoundPlayers(round))

\* C3: on the default path the round is named "Final Table" exactly when it
\* holds 4 players, whatever roundIndex is, and "Round <roundIndex + 2>"
\* otherwise.
C3_DefaultPathName ==
  (call.fn = "buildNextRound" /\ call.result.path = "default")
     => /\ (call.result.round.name = FinalTable) <=> (SlotCount(call.result.round) = 4)
        /\ call.result.round.name # FinalTable =>
              call.result.round.name = "Round " \o ToString(call.roundIndex + 2)

\* the default path named a round of 4 "Final Table" at a roundIndex that
\* is not 0
C3_Witness ==
  /\ call.fn = "buildNextRound"
  /\ call.result.path = "default"
  /\ call.roundIndex > 0
  /\ call.result.round.name = FinalTable

\* the sizes of the groups
SizesOf(groups) == [g \in 1..Len(groups) |-> Len(groups[g])]

SlotsHolding(round, p) ==
  {x \in (1..Len(round.matches)) \X (1..MaxN + 4) :
     /\ x[2] <= Len(round.matches[x[1]].slots)
     /\ round.matches[x[1]].slots[x[2]].participant = p}

\* C5 for one call seedInitialRound(players) = round
SeededRound(players, round) ==
  /\ round.name = "Round 1"
  /\ round.computed = FALSE
  /\ \A m \in 1..Len(round.matches) :
        LET slots == round.matches[m].slots
            real == {k \in 1..Len(slots) : ~IsBye(slots[k].participant)}
        IN  /\ Len(slots) >= 4
            /\ Cardinality(real) < 4 => Len(slots) = 4
            /\ Cardinality(real) >= 4 => Cardinality(real) = Len(slots)
            /\ \A k \in 1..Len(slots) :
                  /\ slots[k].participant # NoParticipant
                  /\ slots[k].points = IF k \in real THEN NoPoints ELSE 0
                  /\ k \in real => slots[k].participant \in Range(players)
  /\ \A i \in 1..Len(players) : Cardinality(SlotsHolding(round, players[i])) = 1
  /\ Len(players) < 4 =>
        /\ Len(round.matches) = 1
        /\ Len(round.matches[1].slots) = 4
        /\ {round.matches[1].slots[k].participant : k \in 1..4} \cap Range(players)
              = Range(players)

\* C5: seedInitialRound returns "Round 1", not computed, every match of at
\* least 4 slots, a group of fewer than 4 padded with BYEs to exactly 4,
\* real players without points and BYEs with 0, every roster member in
\* exactly one slot; fewer than 4 players give one match of 4 slots.
C5_SeededRound ==
  call.fn = "seedInitialRound" => SeededRound(call.players, call.round)

\* a roster was seeded into several matches of which one was padded
C5_Witness ==
  /\ call.fn = "seedInitialRound"
  /\ Len(call.round.matches) > 1
  /\ \E m \in 1..Len(call.round.matches) :
        IsBye(call.round.matches[m].slots[4].participant)

\* the slot of the match that holds participant p
SlotOf(match, p) ==
  match.slots[CHOOSE k \in 1..Len(match.slots) : match.slots[k].participant = p]

\* p is ranked no later than q: more points (no points count below every
\* number), then the earlier name, then the earlier id
RankedBefore(match, p, q) ==
  LET sp == SlotOf(match, p)
      sq == SlotOf(match, q)
  IN  \/ IsNumber(sp.points) /\ (~IsNumber(sq.points) \/ sp.points > sq.points)
      \/ /\ sp.points = sq.points
         /\ \/ p.name < q.name
            \/ p.name = q.name /\ IdLess(p.id, q.id)

\* the match with its slots in the order perm
Permuted(match, perm) ==
  [match EXCEPT !.slots = [k \in 1..Len(match.slots) |-> match.slots[perm[k]]]]

\* C6: the placements of a complete match hold the participant of every
\* non-empty slot exactly once, by points descending, then name, then id;
\* they do not depend on the order of the slots (the slots of the inputs
\* differ pairwise in points, name or id).
C6_PlacementsOrdered ==
  (call.fn = "computePlacements" /\ call.cm.isComplete)
     => LET pl == call.cm.placements
            held == {call.match.slots[k].participant : k \in 1..Len(call.match.slots)}
                       \ {NoParticipant}
        IN  /\ Range(pl) = held
            /\ Len(pl) = Cardinality(held)
            /\ \A a \in 1..Len(pl) : \A b \in (a + 1)..Len(pl) :
                  RankedBefore(call.match, pl[a], pl[b])
            /\ \A perm \in Permutations(1..Len(call.match.slots)) :
                  computePlacements(Permuted(call.match, perm)).placements = pl

\* a complete match of 3 was ranked in which the id decided between two
\* players that sit in the order of their ids reversed
C6_Witness ==
  /\ call.fn = "computePlacements"
  /\ call.cm.isComplete
  /\ Len(call.cm.placements) = 3
  /\ \E a, b \in 1..3 :
        /\ a < b
        /\ call.match.slots[a].participant.name = call.match.slots[b].participant.name
        /\ call.match.slots[a].points = call.match.slots[b].points
        /\ IsReal(call.match.slots[a].participant)
        /\ call.match.slots[a].participant.id > call.match.slots[b].participant.id

\* C7: computePlacements reports the match incomplete, without placements,
\* exactly when some slot holds a non-BYE participant without points.
C7_IncompleteIffRealWithoutPoints ==
  call.fn = "computePlacements"
     => /\ ~call.cm.isComplete <=>
             \E k \in 1..Len(call.match.slots) :
                /\ call.match.slots[k].participant # NoParticipant
                /\ call.match.slots[k].participant.name # ByeName
                /\ call.match.slots[k].points = NoPoints
        /\ ~call.cm.isComplete => (~call.cm.hasPlacements /\ call.cm.placements = <<>>)
        /\ call.cm.isComplete => call.cm.hasPlacements

\* a match with an empty slot and a BYE, both without points, was found
\* complete
C7_Witness ==
  /\ call.fn = "computePlacements"
  /\ call.cm.isComplete
  /\ \E a, b \in 1..Len(call.match.slots) :
        /\ call.match.slots[a] = [participant |-> NoParticipant, points |-> NoPoints]
        /\ IsBye(call.match.slots[b].participant)
        /\ call.match.slots[b].points = NoPoints

\* C8 as stated: in the placements of a complete match every BYE comes
\* after every real participant.
C8_ByeRankedLast ==
  (call.fn = "computePlacements" /\ call.cm.isComplete)
     => \A a, b \in 1..Len(call.cm.placements) :
           (IsBye(call.cm.placements[a]) /\ IsReal(call.cm.placements[b])) => b < a

-----------------------------------------------------------------------------
(* Properties of the tournament *)

\* C9 as stated: no slot of a round made by build-next-round holds a BYE.
C9_ByeNeverAdvances ==
  \A r \in 2..Len(rounds) :
     \A m \in 1..Len(rounds[r].matches) :
        \A k \in 1..Len(rounds[r].matches[m].slots) :
           ~IsBye(rounds[r].matches[m].slots[k].participant)

\* a tournament that is played on: a roster of at least one participant is
\* there, and whatever the user can do next is eventually done
PlayInit ==
  /\ \E N \in 1..MaxPlayN, scheme \in NameSchemes : participants = Roster(N, scheme)
  /\ rounds = <<>>
  /\ call = NoCall

PlayNext == Seed \/ RecordPoint \/ computeCurrentRound \/ buildNext

\* buildNext can add a round: ENABLED <<buildNext>>_vars
CanBuildNext ==
  /\ rounds # <<>>
  /\ rounds[Len(rounds)].name # FinalTable
  /\ rounds[Len(rounds)].computed
  /\ Len(rounds) < MaxRounds
  /\ buildNextRound(rounds[Len(rounds)], Len(rounds) - 1) # NoRound

\* weak fairness of every button; that of buildNext is written out with
\* its enabling condition
PlaySpec ==
  /\ PlayInit
  /\ [][PlayNext]_vars
  /\ WF_vars(Seed)
  /\ WF_vars(RecordPoint)
  /\ WF_vars(computeCurrentRound)
  /\ ([]<>~CanBuildNext \/ []<><<buildNext>>_vars)

\* the last round is the Final Table and its standings are locked
FinalTableRanked ==
  /\ rounds # <<>>
  /\ rounds[Len(rounds)].name = FinalTable
  /\ rounds[Len(rounds)].computed
  /\ AllComplete(rounds[Len(rounds)])

\* why a roster of at most 5 never finishes: a round of one match is followed,
\* if at all, by a round of one match of at most 3 slots that is no Final
\* Table (an invariant of FnSpec)
OneMatchNeverFinal ==
  (call.fn = "buildNextRound" /\ Len(call.prev.matches) = 1)
     => \/ call.result.round = NoRound
        \/ /\ call.result.round.name # FinalTable
           /\ Len(call.result.round.matches) = 1
           /\ Len(call.result.round.matches[1].slots) <= 3

\* a tournament of at most 5 participants has no Final Table (an invariant
\* of PlaySpec)
SmallRosterNeverFinal ==
  Len(participants) <= 5 =>
     \A r \in 1..Len(rounds) : rounds[r].name # FinalTable

-----------------------------------------------------------------------------
(* Round names, build-next-round and compute-round *)

\* the names of the rounds in order: "Round 1" first, then "Round <i>" at
\* position i, at most one Semifinal with the Final Table right after it,
\* and nothing after a Final Table
RoundNamesInOrder ==
  /\ rounds # <<>> => rounds[1].name = RoundName(1)
  /\ \A r \in 1..Len(rounds) :
        rounds[r].name \in {RoundName(r), Semifinal, FinalTable}
  /\ Cardinality({r \in 1..Len(rounds) : rounds[r].name = Semifinal}) <= 1
  /\ \A r \in 1..(Len(rounds) - 1) :
        rounds[r].name = Semifinal => rounds[r + 1].name = FinalTable
  /\ \A r \in 1..Len(rounds) : rounds[r].name = FinalTable => r = Len(rounds)

\* a step that keeps the tournament going (no load, no reset) leaves the
\* name of every round that exists as it is
NamesKept ==
  Len(rounds) > 0 /\ Len(rounds') > 0 =>
     /\ Len(rounds') >= Len(rounds)
     /\ \A r \in 1..Len(rounds) : rounds'[r].name = rounds[r].name

\* C11: in every reachable state the round names follow Round 1, Round 2..k,
\* an optional Semifinal, Final Table; a Semifinal occurs at most once and
\* is followed by the Final Table, the Final Table is the last round, and
\* no step renames a round.
C11_RoundNames == [](RoundNamesInOrder) /\ [][NamesKept]_vars

\* a tournament went Round 1, Semifinal, Final Table
C11_Witness ==
  /\ Len(rounds) = 3
  /\ rounds[1].name = RoundName(1)
  /\ rounds[2].name = Semifinal
  /\ rounds[3].name = FinalTable

\* the last round
LastRound == rounds[Len(rounds)]

\* a step of build-next-round (what it leaves alone is looked at first)
BuildStep == UNCHANGED <<participants, call>> /\ rounds' # <<>> /\ buildNext

\* C12: when the last round is named "Final Table", computed or not,
\* build-next-round appends nothing and leaves participants and rounds as
\* they are.
C12_FinalTableRefuses ==
  [][(rounds # <<>> /\ LastRound.name = FinalTable /\ BuildStep)
        => UNCHANGED <<participants, rounds>>]_vars

\* the tournament stands at a computed Final Table, where build-next-round
\* is refused
C12_Witness ==
  /\ rounds # <<>>
  /\ LastRound.name = FinalTable
  /\ LastRound.computed
  /\ buildNextRound(LastRound, Len(rounds) - 1) # NoRound
  /\ Len(rounds) < MaxRounds

\* the slots of a round hold no points
NoPointsIn(round) ==
  \A m \in 1..Len(round.matches) :
     \A k \in 1..Len(round.matches[m].slots) :
        round.matches[m].slots[k].points = NoPoints

\* what a build-next-round step does to the rounds: nothing, or, from a
\* computed last round for which buildNextRound returns a round, one new
\* round after the rounds that were there
AppendsOneOrNothing ==
  \/ UNCHANGED rounds
  \/ /\ LastRound.computed
     /\ Len(rounds') = Len(rounds) + 1
     /\ SubSeq(rounds', 1, Len(rounds)) = rounds
     /\ ~rounds'[Len(rounds')].computed
     /\ NoPointsIn(rounds'[Len(rounds')])
     /\ rounds'[Len(rounds')] # NoRound
     /\ rounds'[Len(rounds')] = buildNextRound(LastRound, Len(rounds) - 1)

\* C13: build-next-round appends nothing when the last round is not computed
\* or buildNextRound returns null; otherwise it appends exactly one round,
\* not computed and without points, and changes no earlier round.
C13_BuildAppendsOneOrNothing ==
  [][BuildStep => (AppendsOneOrNothing /\ UNCHANGED participants)]_vars

\* a computed round that is no Final Table gives no advancers, so that
\* build-next-round has nothing to append
C13_Witness ==
  /\ rounds # <<>>
  /\ LastRound.computed
  /\ LastRound.name # FinalTable
  /\ buildNextRound(LastRound, Len(rounds) - 1) = NoRound

\* a step of compute-round (what it leaves alone is looked at first)
ComputeStep ==
  UNCHANGED <<participants, call>> /\ rounds' # <<>> /\ computeCurrentRound

\* C14: compute-round sets the computed flag of the last round only when
\* every real player of the round has points, and changes nothing else; when
\* points are missing the round stays as it is.
C14_ComputeOnlyWhenComplete ==
  [][ComputeStep =>
        /\ EveryMatchComplete(LastRound)
        /\ rounds' = [rounds EXCEPT ![Len(rounds)].computed = TRUE]]_vars

\* a round of several matches was computed, one of them padded with a BYE
C14_Witness ==
  /\ rounds # <<>>
  /\ LastRound.computed
  /\ Len(LastRound.matches) >= 2
  /\ \E m \in 1..Len(LastRound.matches) :
        \E k \in 1..Len(LastRound.matches[m].slots) :
           IsBye(LastRound.matches[m].slots[k].participant)

-----------------------------------------------------------------------------
(* More properties of the functions, checked under FnSpec *)

\* C15: a round named "Final Table" that buildNextRound returns, on any of
\* its paths, has exactly one match, and that match has exactly 4 slots.
C15_FinalTableIsOneMatchOfFour ==
  (call.fn = "buildNextRound" /\ call.result.round.name = FinalTable)
     => /\ Len(call.result.round.matches) = 1
        /\ Len(call.result.round.matches[1].slots) = 4

\* the default path made a Final Table whose fourth player is a third
C15_Witness ==
  /\ call.fn = "buildNextRound"
  /\ call.result.path = "default"
  /\ call.result.round.name = FinalTable
  /\ Len(nextRoundFrom(call.prev).advancers) = 3

HeldBy(round) == Range(RoundPlayers(round))

\* buildNextRound returned a round for a round whose matches are complete
BuiltFromComplete ==
  /\ call.fn = "buildNextRound"
  /\ EveryMatchComplete(call.prev)
  /\ call.result.round # NoRound

\* the round is a Final Table made of the winners and the best second
FinalOfWinners ==
  call.result.path \in {"semifinalToFinal", "semifinalFormat"}

AdvancersOf(prev) == nextRoundFrom(prev).advancers
ThirdsOf(prev) == nextRoundFrom(prev).thirds

\* the number of advancers in group g (1-based) of the grouping policy
SizeOfGroup(advancers, g) ==
  GroupSize(Len(advancers), GroupCount(Len(advancers)), g - 1)

\* the places that the groups of the advancers leave open below 4
NeedOf(advancers) ==
  SumSeq([g \in 1..GroupCount(Len(advancers)) |->
            Max(0, 4 - SizeOfGroup(advancers, g))])

\* buildNextRound took the default path for a round whose matches are complete
DefaultFromComplete ==
  /\ call.fn = "buildNextRound"
  /\ EveryMatchComplete(call.prev)
  /\ call.result.path = "default"

-----------------------------------------------------------------------------
(* More properties of the tournament *)

\* C16 as stated: every match of every round of a tournament has between 3
\* and 5 slots.
C16_MatchesOfThreeToFive ==
  \A r \in 1..Len(rounds) :
     \A m \in 1..Len(rounds[r].matches) :
        Len(rounds[r].matches[m].slots) \in 3..5

-----------------------------------------------------------------------------
(* The round built from a Round 1 of six matches, checked under FnSpec *)

\* buildNextRound(prev, 0) was called with a Round 1 of 6 complete matches
\* of 4 real players each
BuiltFromSixOfFour ==
  /\ call.fn = "buildNextRound"
  /\ call.roundIndex = 0
  /\ call.prev.name = RoundName(1)
  /\ call.prev.computed
  /\ Len(call.prev.matches) = 6
  /\ \A m \in 1..6 :
        /\ Len(call.prev.matches[m].slots) = 4
        /\ \A k \in 1..4 : IsReal(call.prev.matches[m].slots[k].participant)
  /\ EveryMatchComplete(call.prev)

\* the number of slots of the match whose participant was placed at 0-based
\* rank j of a match of the round
CountPlaced(match, round, j) ==
  Cardinality({k \in 1..Len(match.slots) :
                 match.slots[k].participant \in PlacedAt(round, j)})

\* C21: from a computed Round 1 of 6 complete matches of 4 real players,
\* buildNextRound(prev, 0) returns a round in which every match has exactly
\* 5 players, 2 placed first, 2 placed second and 1 placed third in Round 1,
\* and no participant is held twice.
C21_RoundTwoOfFives ==
  BuiltFromSixOfFour =>
     LET next == call.result.round
     IN  /\ next # NoRound
         /\ \A m \in 1..Len(next.matches) :
               /\ Len(next.matches[m].slots) = 5
               /\ CountPlaced(next.matches[m], call.prev, 0) = 2
               /\ CountPlaced(next.matches[m], call.prev, 1) = 2
               /\ CountPlaced(next.matches[m], call.prev, 2) = 1
         /\ Cardinality(HeldBy(next)) = SlotCount(next)

-----------------------------------------------------------------------------
(* Export and import of the state *)

\* the largest roster of a tournament that is exported and imported
MaxFileN == 3
\* the most rounds of a tournament that is exported and imported
MaxFileRounds == 2

\* a JSON value that is an array, one that is something else (a string, a
\* number, an object), and the value of a property that is missing
JsonArray(items) == [type |-> "array", items |-> items]
NotArray == [type |-> "other"]
Absent == [type |-> "absent"]

isArray(v) == v.type = "array"

\* the elements of a value that is iterated as an array (none unless it is one)
ArrayItems(v) == IF isArray(v) THEN v.items ELSE <<>>

\* (a slip: a slot's points are written only when they are truthy)
StringifySlotTruthy(s) ==
  IF IsNumber(s.points) /\ s.points # 0
  THEN [participant |-> s.participant, points |-> s.points]
  ELSE [participant |-> s.participant]

\* JSON.stringify of a slot: a property whose value is undefined is left out
StringifySlot(s) ==
  IF IsNumber(s.points)
  THEN [participant |-> s.participant, points |-> s.points]
  ELSE [participant |-> s.participant]

StringifyMatch(m) ==
  [slots |-> JsonArray([k \in 1..Len(m.slots) |-> StringifySlot(m.slots[k])]),
   isComplete |-> m.isComplete]

StringifyRound(r) ==
  [name |-> r.name,
   matches |-> JsonArray([m \in 1..Len(r.matches) |-> StringifyMatch(r.matches[m])]),
   computed |-> r.computed]

\* the file of btnExport: JSON.stringify(state, null, 2)
stringify(ps, rs) ==
  [syntax |-> TRUE, object |-> TRUE,
   participants |-> JsonArray(ps),
   rounds |-> JsonArray([r \in 1..Len(rs) |-> StringifyRound(rs[r])])]

\* what the code reads from the objects of a parsed file: a property that
\* is missing reads as undefined
ParseSlot(js) ==
  [participant |-> js.participant,
   points |-> IF "points" \in DOMAIN js THEN js.points ELSE NoPoints]

ParseMatch(jm) ==
  [slots |-> [k \in 1..Len(ArrayItems(jm.slots)) |-> ParseSlot(ArrayItems(jm.slots)[k])],
   isComplete |-> jm.isComplete]

ParseRound(jr) ==
  [name |-> jr.name,
   matches |-> [m \in 1..Len(ArrayItems(jr.matches)) |->
                  ParseMatch(ArrayItems(jr.matches)[m])],
   computed |-> jr.computed]

ParseRounds(v) == [r \in 1..Len(ArrayItems(v)) |-> ParseRound(ArrayItems(v)[r])]

\* files that were not exported: text that is not JSON, the text "null",
\* and objects whose participants or rounds are missing or not arrays
OtherFiles ==
  {[syntax |-> FALSE, object |-> FALSE, participants |-> Absent, rounds |-> Absent],
   [syntax |-> TRUE, object |-> FALSE, participants |-> Absent, rounds |-> Absent]}
  \cup {[syntax |-> TRUE, object |-> TRUE, participants |-> p, rounds |-> r] :
          p \in {JsonArray(<<>>), NotArray, Absent},
          r \in {JsonArray(<<>>), NotArray, Absent}}

\* (a slip: only the participants of the file are looked at)
BadFileParticipantsOnly(f) ==
  ~f.syntax \/ ~f.object \/ ~isArray(f.participants)

\* the file makes the import handler throw before it assigns anything:
\* JSON.parse fails, or the test of obj and its two arrays does
BadFile(f) ==
  ~f.syntax \/ ~f.object \/ ~isArray(f.participants) \/ ~isArray(f.rounds)

\* the page as it is opened, before any file was exported or picked:
\* file is the last exported file and exported the state it was made from
\* (at first those of the empty page), alerted and changed whether the
\* last import alerted and whether it changed the state
NoFileCall ==
  [fn |-> "none", file |-> stringify(<<>>, <<>>),
   exported |-> [participants |-> <<>>, rounds |-> <<>>],
   alerted |-> FALSE, changed |-> FALSE]

\* btnExport: the state is written to a file
Export ==
  /\ call' = [call EXCEPT !.fn = "export",
                          !.file = stringify(participants, rounds),
                          !.exported = [participants |-> participants,
                                        rounds |-> rounds]]
  /\ UNCHANGED <<participants, rounds>>

\* the import handler once the file is read
ImportFile(f) ==
  IF BadFile(f)
  THEN /\ UNCHANGED <<participants, rounds>>
       /\ call' = [call EXCEPT !.fn = "import",
                               !.alerted = TRUE, !.changed = FALSE]
  ELSE /\ participants' = ArrayItems(f.participants)
       /\ rounds' = ParseRounds(f.rounds)
       /\ call' = [call EXCEPT !.fn = "import", !.alerted = FALSE,
                               !.changed = (<<participants, rounds>> #
                                  <<ArrayItems(f.participants), ParseRounds(f.rounds)>>)]

\* fileImport: the user picks the exported file or another one
Import == \E f \in {call.file} \cup OtherFiles : ImportFile(f)

FileInit ==
  /\ \E N \in 0..MaxFileN : participants = Roster(N, "unique")
  /\ rounds = <<>>
  /\ call = NoFileCall

\* btnNext while the tournament is short enough to be followed
FileBuildNext == Len(rounds) < MaxFileRounds /\ buildNext

FileNext ==
  Reset \/ Seed \/ RecordPoint \/ computeCurrentRound \/ FileBuildNext \/ Export \/ Import

FileSpec == FileInit /\ [][FileNext]_vars

\* the step is an import of file f
ImportStep(f) == call'.fn = "import" /\ ImportFile(f)

\* C22: importing the file that was exported restores the state it was
\* exported from: the same participants in the same order, the same rounds
\* with the same names and computed flags, and in every slot the same
\* participant with the same points (none where there were none).
C22_ExportImportRoundTrip ==
  [][ImportStep(call.file) =>
        /\ participants' = call.exported.participants
        /\ rounds' = call.exported.rounds
        /\ ~call'.alerted]_vars

\* an exported tournament with a computed round, with points of 0 and with
\* slots without points was imported over a different state
C22_Witness ==
  /\ call.fn = "import"
  /\ ~call.alerted
  /\ call.changed
  /\ participants = call.exported.participants
  /\ rounds = call.exported.rounds
  /\ Len(rounds) >= 2
  /\ rounds[1].computed
  /\ \E k \in 1..Len(rounds[1].matches[1].slots) :
        rounds[1].matches[1].slots[k].points = 0
  /\ \E k \in 1..Len(rounds[2].matches[1].slots) :
        rounds[2].matches[1].slots[k].points = NoPoints

\* the participants or the rounds of the file are missing or not a sequence
LacksSequences(f) == ~isArray(f.participants) \/ ~isArray(f.rounds)

\* C23: an import of data whose participants or rounds are missing or are
\* not a sequence reports failure and leaves participants and rounds as
\* they were.
C23_MalformedImportRejected ==
  [][\A f \in {call.file} \cup OtherFiles :
        (LacksSequences(f) /\ ImportStep(f)) =>
           (call'.alerted /\ UNCHANGED <<participants, rounds>>)]_vars

\* a failed import has left a tournament with rounds in place
C23_Witness ==
  /\ call.fn = "import"
  /\ call.alerted
  /\ ~call.changed
  /\ participants # <<>>
  /\ rounds # <<>>

-----------------------------------------------------------------------------
(* The Final Table of a round of three matches, checked under FnSpec *)

\* the candidate pool of a round: its real first, second and third places
PoolOf(round) == PlacedAt(round, 0) \cup PlacedAt(round, 1) \cup PlacedAt(round, 2)

PoolOfNine(round) == Cardinality({p.id : p \in PoolOf(round)}) = 9

\* buildNextRound was called with a round of 3 complete matches, none with
\* fewer than 2 real players, that is not named "Semifinal"
BuiltFromThreeMatches ==
  /\ call.fn = "buildNextRound"
  /\ call.prev.name # Semifinal
  /\ Len(call.prev.matches) = 3
  /\ EveryMatchComplete(call.prev)
  /\ \A m \in 1..3 : Cardinality(RealSlots(call.prev.matches[m])) >= 2

\* the winners of the round and its best second b are 4 participants
FourWith(round, b) ==
  /\ IsBestSecond(round, b)
  /\ Cardinality({p.id : p \in WinnersOf(round) \cup {b}}) = 4

\* C24: from a round of 3 complete matches with at least 2 real players
\* each, not named "Semifinal" and without a pool of exactly 9, the result
\* is the "Final Table" of one match that holds the 3 winners and the best
\* second whenever these are 4 distinct participants, and the default path
\* is taken only when they are not; with a pool of exactly 9 the result is
\* the Semifinal instead.
C24_FinalTableOfThreeMatches ==
  BuiltFromThreeMatches =>
     LET prev == call.prev
         next == call.result.round
     IN  IF PoolOfNine(prev)
         THEN next.name = Semifinal
         ELSE IF \E b \in SecondsOf(prev) : FourWith(prev, b)
         THEN /\ next.name = FinalTable
              /\ Len(next.matches) = 1
              /\ SlotCount(next) = 4
              /\ \E b \in SecondsOf(prev) :
                    /\ FourWith(prev, b)
                    /\ HeldBy(next) = WinnersOf(prev) \cup {b}
         ELSE call.result.path = "default"

\* a Final Table was made from 3 matches that are padded with BYEs and
\* whose seconds differ in points
C24_Witness ==
  /\ BuiltFromThreeMatches
  /\ ~PoolOfNine(call.prev)
  /\ call.result.round.name = FinalTable
  /\ \E k \in 1..Len(call.prev.matches[1].slots) :
        IsBye(call.prev.matches[1].slots[k].participant)
  /\ \E a, b \in SecondsOf(call.prev) :
        RecordedPoints(call.prev, a) # RecordedPoints(call.prev, b)

\* a round of 3 matches with a pool of 9 gave the Semifinal, although its
\* winners and best second are 4
C24_SemifinalFirst ==
  /\ BuiltFromThreeMatches
  /\ PoolOfNine(call.prev)
  /\ \E b \in SecondsOf(call.prev) : FourWith(call.prev, b)
  /\ call.result.round.name = Semifinal

-----------------------------------------------------------------------------
(* The groups of the default path, checked under FnSpec *)

\* the participants of match g of a round, in slot order
Seated(round, g) ==
  [k \in 1..Len(round.matches[g].slots) |-> round.matches[g].slots[k].participant]

\* the participants that match g holds after the first n
AddedTo(round, g, n) == SubSeq(Seated(round, g), n + 1, Len(Seated(round, g)))

\* third a comes before third b when the thirds are taken: more points, or
\* the same points and a name that is not later
ThirdBefore(a, b) ==
  \/ a.points > b.points
  \/ a.points = b.points /\ a.p.name <= b.p.name

\* buildNextRound took the default path
DefaultPathTaken ==
  /\ call.fn = "buildNextRound"
  /\ call.result.path = "default"

\* C25: on the default path match g starts with group g of
\* distributeIntoGroups(advancers); a group of 4 or 5 gets nobody else, a
\* smaller one gets thirds up to 4 players or until no third is left; no
\* third is added twice, and every third that is added comes before every
\* third that is left out, by points and then by name.
C25_DefaultGroupsToppedUp ==
  DefaultPathTaken =>
     LET adv == AdvancersOf(call.prev)
         thirds == ThirdsOf(call.prev)
         groups == distributeIntoGroups(adv)
         next == call.result.round
         added == Flatten([g \in 1..Len(groups) |-> AddedTo(next, g, Len(groups[g]))])
     IN  /\ Len(next.matches) = Len(groups)
         /\ \A g \in 1..Len(groups) :
               /\ SubSeq(Seated(next, g), 1, Len(groups[g])) = groups[g]
               /\ Len(groups[g]) >= 4 => Seated(next, g) = groups[g]
               /\ Len(groups[g]) < 4 =>
                     /\ Len(Seated(next, g)) <= 4
                     /\ Len(Seated(next, g)) < 4 =>
                           \A i \in 1..Len(thirds) : thirds[i].p \in Range(added)
         /\ Range(added) \subseteq {thirds[i].p : i \in 1..Len(thirds)}
         /\ Cardinality(Range(added)) = Len(added)
         /\ \A i, j \in 1..Len(thirds) :
               (thirds[i].p \in Range(added) /\ thirds[j].p \notin Range(added))
                  => ThirdBefore(thirds[i], thirds[j])

\* two groups of the default path were topped up with thirds, and a third
\* with the points of one of them was left out
C25_Witness ==
  /\ DefaultPathTaken
  /\ Len(call.result.round.matches) >= 2
  /\ \A g \in 1..2 :
        Len(Seated(call.result.round, g)) >
           Len(distributeIntoGroups(AdvancersOf(call.prev))[g])
  /\ \E i, j \in 1..Len(ThirdsOf(call.prev)) :
        /\ ThirdsOf(call.prev)[i].p \in HeldBy(call.result.round)
        /\ ThirdsOf(call.prev)[j].p \notin HeldBy(call.result.round)
        /\ ThirdsOf(call.prev)[i].points = ThirdsOf(call.prev)[j].points

-----------------------------------------------------------------------------
(* The advancers and thirds of a round, checked under FnSpec *)

\* the matches of the round in which every real player has points
CompleteMatches(round) ==
  {m \in 1..Len(round.matches) :
     \A k \in 1..Len(round.matches[m].slots) :
        IsReal(round.matches[m].slots[k].participant) =>
           IsNumber(round.matches[m].slots[k].points)}

\* the participant at 0-based rank j of match m, given the placements of
\* the matches of a round
TopOf(cms, m, j) == At(cms[m].placements, j)

\* the i-th smallest number of a set of numbers
NthOf(S, i) == CHOOSE x \in S : Cardinality({y \in S : y <= x}) = i

\* the first and second places of the complete matches that are real
\* players, numbered in match order: 2m - 1 the first and 2m the second
\* place of match m
AdvancingPlaces(complete, cms) ==
  {q \in 1..(2 * Len(cms)) :
     /\ ((q + 1) \div 2) \in complete
     /\ IsReal(TopOf(cms, (q + 1) \div 2, (q + 1) % 2))}

\* the complete matches whose third place is a real player
ThirdPlaces(complete, cms) ==
  {m \in complete : IsReal(TopOf(cms, m, 2))}

\* the match records these points for the participant
Records(match, p, pts) ==
  \E k \in 1..Len(match.slots) :
     match.slots[k].participant = p /\ match.slots[k].points = pts

\* C26: the advancers are the first and second places of the complete
\* matches that are not BYE, in match order; the thirds are the third places
\* of the complete matches that are not BYE, each with the points its match
\* records for it; an incomplete match adds nothing; and buildNextRound
\* returns null when there is no advancer.
C26_AdvancersAndThirds ==
  call.fn = "buildNextRound" =>
     LET prev == call.prev
         adv == call.nr.advancers
         thirds == call.nr.thirds
         cms == Cms(prev)
         complete == CompleteMatches(prev)
         places == AdvancingPlaces(complete, cms)
         thirdPlaces == ThirdPlaces(complete, cms)
     IN  /\ Len(adv) = Cardinality(places)
         /\ \A i \in 1..Len(adv) :
               LET q == NthOf(places, i)
               IN  adv[i] = TopOf(cms, (q + 1) \div 2, (q + 1) % 2)
         /\ Len(thirds) = Cardinality(thirdPlaces)
         /\ \A i \in 1..Len(thirds) :
               LET m == NthOf(thirdPlaces, i)
               IN  /\ thirds[i].p = TopOf(cms, m, 2)
                   /\ Records(prev.matches[m], thirds[i].p, thirds[i].points)
         /\ adv = <<>> => call.result.round = NoRound

\* a round with an incomplete match before a complete one, and with a BYE
\* among the first three of a match, gave advancers and a third
C26_Witness ==
  /\ call.fn = "buildNextRound"
  /\ 1 \notin CompleteMatches(call.prev)
  /\ 2 \in CompleteMatches(call.prev)
  /\ \E m \in CompleteMatches(call.prev) : \E j \in 0..2 :
        IsBye(TopOf(Cms(call.prev), m, j))
  /\ call.nr.advancers # <<>>
  /\ call.nr.thirds # <<>>
  /\ call.result.round # NoRound

\* a round without advancers gave no round
C26_NoAdvancers ==
  /\ call.fn = "buildNextRound"
  /\ call.nr.advancers = <<>>
  /\ call.result.round = NoRound

-----------------------------------------------------------------------------
(* The grouping policy once more, checked under FnSpec *)

\* the number of groups that N players are to make: floor(N/4) when
\* ceil(N/5) <= floor(N/4), otherwise ceil(N/4)
GroupsFor(N) ==
  IF (N + 4) \div 5 <= N \div 4 THEN N \div 4 ELSE (N + 3) \div 4

\* C27: the groups of distributeIntoGroups are consecutive slices of the
\* input, so that joined they give the input; N = 0 players give no group;
\* otherwise there are m groups, m as GroupsFor(N), the first N mod m of
\* floor(N/m) + 1 members and the others of floor(N/m), so that sizes
\* differ by at most 1.
C27_GroupsAreBalancedSlices ==
  call.fn = "distributeIntoGroups" =>
     LET N == Len(call.players)
         groups == call.groups
         m == GroupsFor(N)
     IN  /\ Flatten(groups) = call.players
         /\ N = 0 => groups = <<>>
         /\ N > 0 =>
               /\ Len(groups) = m
               /\ \A g \in 1..Len(groups) :
                     Len(groups[g]) = (N \div m) + (IF g <= N % m THEN 1 ELSE 0)
         /\ \A g, h \in 1..Len(groups) : Len(groups[g]) - Len(groups[h]) <= 1

\* players that cannot be split into 4s and 5s made three groups, the
\* first ones larger than the last
C27_Witness ==
  /\ call.fn = "distributeIntoGroups"
  /\ (Len(call.players) + 4) \div 5 > Len(call.players) \div 4
  /\ Len(call.groups) = 3
  /\ Len(call.groups[1]) > Len(call.groups[3])
  /\ Flatten(call.groups) = call.players

-----------------------------------------------------------------------------
(* Points typed into any round *)

\* the largest roster and the most rounds of a tournament whose points are
\* typed and retyped freely
MaxEditN == 3
MaxEditRounds == 2

\* the value NaN
NaN == -2

\* what the number input of a slot holds after the user typed: digits, or
\* "" when the field was cleared (or holds no valid number)
TypedTexts == {"", "1"}

\* (a slip: the empty text is read as NaN, as parseFloat would)
NumberOrNaN(text) == IF text = "" THEN NaN ELSE 1

\* Number(input.value): the empty text is 0
Number(text) == IF text = "" THEN 0 ELSE 1

\* s.points = Number.isNaN(val) ? undefined : val
FromInput(val) == IF val = NaN THEN NoPoints ELSE val

\* the input handler of any slot of any round: every round stays on the
\* page with its inputs enabled, whether computed or not
EditPoint ==
  \E r \in 1..Len(rounds) :
     \E x \in SlotsOf(rounds[r]) :
        \E text \in TypedTexts :
           SetPoints(r, x[1], x[2], FromInput(Number(text)))

EditInit ==
  /\ \E N \in 1..MaxEditN : participants = Roster(N, "unique")
  /\ rounds = <<>>
  /\ call = NoCall

\* btnNext while the tournament is short enough to be followed
EditBuildNext == Len(rounds) < MaxEditRounds /\ buildNext

EditNext == Seed \/ EditPoint \/ computeCurrentRound \/ EditBuildNext

EditSpec == EditInit /\ [][EditNext]_vars

-----------------------------------------------------------------------------
(* No participant twice in a round *)

\* the ids of the participants of the slots of a round, in reading order
IdsOf(round) == [i \in 1..Len(RoundPlayers(round)) |-> RoundPlayers(round)[i].id]

\* no id occupies two slots of the round
NoIdTwice(round) == Cardinality(Range(IdsOf(round))) = Len(IdsOf(round))

\* C29: when no participant id occupies two slots of the round that
\* buildNextRound is called with, none occupies two slots of the round it
\* returns, whichever path made it.
C29_NoParticipantTwice ==
  (/\ call.fn = "buildNextRound"
   /\ NoIdTwice(call.prev)
   /\ call.result.round # NoRound)
     => NoIdTwice(call.result.round)

\* the default path topped two groups up with thirds and no id is held twice
C29_Witness ==
  /\ DefaultPathTaken
  /\ NoIdTwice(call.prev)
  /\ Len(call.result.round.matches) >= 2
  /\ \A g \in 1..2 :
        Len(Seated(call.result.round, g)) >
           Len(distributeIntoGroups(call.nr.advancers)[g])
  /\ NoIdTwice(call.result.round)

\* in a tournament seeded from a roster no round holds an id twice
C29_NoParticipantTwiceInTournament ==
  \A r \in 1..Len(rounds) : NoIdTwice(rounds[r])

-----------------------------------------------------------------------------
(* Who enters the next round, checked under FnSpec *)

\* the participants at 0-based rank j of the complete matches of a round
PlacedInComplete(complete, cms, j) ==
  {TopOf(cms, m, j) : m \in complete} \ {NoParticipant}

\* p was added to a group of fewer than 4 advancers on the default path
ToppedUpWith(p) ==
  /\ call.result.path = "default"
  /\ \E g \in 1..Len(call.result.round.matches) :
        LET n == Len(distributeIntoGroups(call.nr.advancers)[g])
        IN  n < 4 /\ p \in Range(AddedTo(call.result.round, g, n))

\* C30: every participant of a round that buildNextRound returns is in the
\* previous round and was placed first, second or third in a complete match
\* of it (so nobody placed fourth or fifth and nobody from elsewhere); one
\* placed third is there only in a round named "Semifinal" or as the
\* top-up of a group of fewer than 4 advancers.
C30_OnlyTopThreeEnter ==
  (call.fn = "buildNextRound" /\ call.result.round # NoRound) =>
     LET prev == call.prev
         next == call.result.round
         cms == Cms(prev)
         complete == CompleteMatches(prev)
         topTwo == PlacedInComplete(complete, cms, 0) \cup PlacedInComplete(complete, cms, 1)
         third == PlacedInComplete(complete, cms, 2)
     IN  /\ HeldBy(next) \subseteq HeldBy(prev)
         /\ HeldBy(next) \subseteq (topTwo \cup third)
         /\ \A p \in HeldBy(next) \cap third :
               next.name = Semifinal \/ ToppedUpWith(p)

\* from matches of 5 players a round was returned that holds a third as
\* the top-up of a group, and neither a fourth nor a fifth
C30_Witness ==
  /\ call.fn = "buildNextRound"
  /\ call.result.round # NoRound
  /\ \E m \in CompleteMatches(call.prev) : Len(Cms(call.prev)[m].placements) = 5
  /\ \E p \in HeldBy(call.result.round) :
        /\ p \in PlacedInComplete(CompleteMatches(call.prev), Cms(call.prev), 2)
        /\ ToppedUpWith(p)

=============================================================================
